---------------------------- MODULE Spec2Model ----------------------------
(***************************************************************************)
(* Model of programming-rust/source-code/02:                               *)
(*   mandelbrot/src/main.rs   - the band-parallel Mandelbrot renderer      *)
(*   quickreplace/src/main.rs - the regex find-and-replace utility         *)
(*                                                                         *)
(* f64 is modelled as a binary floating-point number with MantissaBits     *)
(* bits of precision and IEEE 754 round-to-nearest-even after every        *)
(* operation: a value is [m |-> mantissa, e |-> exponent] standing for     *)
(* m * 2^e with m odd (or m = 0, e = 0), so equal values are equal records.*)
(* The exponent range is unbounded (no overflow to infinity, no subnormal  *)
(* numbers) and there is no NaN: the inputs drawn are finite and small.    *)
(***************************************************************************)
EXTENDS Integers, Sequences, FiniteSets, TLC

\* ------------------------------------------------------------- bounds
\* Precision of the model's floating point (f64 has 53).
MantissaBits == 8

\* Image sizes WIDTHxHEIGHT the command line is given, 0 included.
MaxWidth == 2

MaxHeight == 15

\* Thread counts the partition is computed for, besides `let threads = 8`.
MaxThreads == 9

\* Small limits escape_time is called with, besides render's 255.
MaxSmallLimit == 3

\* Small image bounds pixel_to_point is called with.
MaxPointBound == 3

\* Lengths of the INPUT text and of the target pattern of quickreplace.
MaxTextLen == 3

MaxTargetLen == 2

\* ------------------------------------------------- f64 arithmetic (IEEE)
RECURSIVE Pow2(_)
Pow2(n) == IF n <= 0 THEN 1 ELSE 2 * Pow2(n - 1)

RECURSIVE BitLen(_)
BitLen(n) == IF n <= 0 THEN 0 ELSE 1 + BitLen(n \div 2)

Abs(n) == IF n < 0 THEN -n ELSE n

Sgn(n) == IF n < 0 THEN -1 ELSE IF n = 0 THEN 0 ELSE 1

\* The canonical record of m * 2^e (m odd, or zero).
RECURSIVE Strip(_, _)
Strip(m, e) ==
    IF m = 0 THEN [m |-> 0, e |-> 0]
    ELSE IF m % 2 = 0 THEN Strip(m \div 2, e + 1)
    ELSE [m |-> m, e |-> e]

\* m * 2^e rounded to MantissaBits bits, ties to even.
RoundToNearestEven(m, e) ==
    LET a == Abs(m)
        s == BitLen(a) - MantissaBits
    IN  IF s <= 0 THEN Strip(m, e)
        ELSE LET q    == a \div Pow2(s)
                 r    == a % Pow2(s)
                 half == Pow2(s - 1)
                 up   == r > half \/ (r = half /\ q % 2 = 1)
             IN  Strip(Sgn(m) * (IF up THEN q + 1 ELSE q), e + s)

\* (n / d) * 2^e rounded, d > 0: the quotient is taken to MantissaBits + 2
\* bits and the remainder kept as a sticky bit below them.
RoundQuotient(n, d, e) ==
    LET a   == Abs(n)
        gap == MantissaBits + 2 + BitLen(d) - BitLen(a)
        k   == IF gap > 0 THEN gap ELSE 0
        q   == (a * Pow2(k)) \div d
        st  == IF (a * Pow2(k)) % d = 0 THEN 0 ELSE 1
    IN  IF n = 0 THEN Strip(0, 0)
        ELSE RoundToNearestEven(Sgn(n) * (2 * q + st), e - k - 1)

F64(m, e) == RoundToNearestEven(m, e)

\* usize as f64
AsF64(n) == RoundToNearestEven(n, 0)

FNeg(x) == [m |-> -x.m, e |-> x.e]

\* x + y. When the exponents are further apart than 2 * MantissaBits + 1 the
\* smaller operand is below half a unit in the last place of the larger.
FAdd(x, y) ==
    IF x.m = 0 THEN y
    ELSE IF y.m = 0 THEN x
    ELSE IF x.e - y.e > 2 * MantissaBits + 1 THEN x
    ELSE IF y.e - x.e > 2 * MantissaBits + 1 THEN y
    ELSE LET e == IF x.e < y.e THEN x.e ELSE y.e
         IN  RoundToNearestEven(x.m * Pow2(x.e - e) + y.m * Pow2(y.e - e), e)

FSub(x, y) == FAdd(x, FNeg(y))

FMul(x, y) == RoundToNearestEven(x.m * y.m, x.e + y.e)

\* x / y for y # 0 (the program never divides by a zero bound: see Dispatch).
FDiv(x, y) == RoundQuotient(x.m * Sgn(y.m), Abs(y.m), x.e - y.e)

\* The sign of x - y, computed exactly.
FCmp(x, y) ==
    IF x.m = 0 THEN -Sgn(y.m)
    ELSE IF y.m = 0 THEN Sgn(x.m)
    ELSE IF Sgn(x.m) # Sgn(y.m) THEN Sgn(x.m)
    ELSE LET tx == BitLen(Abs(x.m)) + x.e
             ty == BitLen(Abs(y.m)) + y.e
             e  == IF x.e < y.e THEN x.e ELSE y.e
         IN  IF tx # ty THEN Sgn(x.m) * (IF tx > ty THEN 1 ELSE -1)
             ELSE Sgn(x.m * Pow2(x.e - e) - y.m * Pow2(y.e - e))

FGt(x, y) == FCmp(x, y) > 0


\* ---------------------------------------------------- num::Complex<f64>
Complex(re, im) == [re |-> re, im |-> im]

\* Complex::norm_sqr: re * re + im * im
norm_sqr(z) == FAdd(FMul(z.re, z.re), FMul(z.im, z.im))

\* impl Mul for Complex: (a.re*b.re - a.im*b.im, a.re*b.im + a.im*b.re)
CMul(a, b) ==
    Complex(FSub(FMul(a.re, b.re), FMul(a.im, b.im)),
            FAdd(FMul(a.re, b.im), FMul(a.im, b.re)))

\* impl Add for Complex
CAdd(a, b) == Complex(FAdd(a.re, b.re), FAdd(a.im, b.im))

\* ------------------------------------------------------- escape_time
None == [some |-> FALSE, count |-> 0]

Some(i) == [some |-> TRUE, count |-> i]

\* the literal 4.0 of `z.norm_sqr() > 4.0`
EscapeRadiusSqr == F64(4, 0)

\* the loop test: |z|^2 > 4.0
Escaped(z) == FGt(norm_sqr(z), EscapeRadiusSqr)

\* the loop body: z = z * z + c
Iterate(z, c) == CAdd(CMul(z, z), c)

\* mutant of EscapeCount: the passes counted after the body has run
EscapeCountAfter(i) == i + 1

\* the value the loop returns on escape at index i
EscapeCount(i) == i

\* The state of the loop `for i in 0..limit`: z, the index i, and the value
\* returned once the loop has returned (done).
LoopStart == [z |-> Complex(F64(0, 0), F64(0, 0)), i |-> 0, ret |-> None, done |-> FALSE]

\* One pass of
\*   for i in 0..limit { if z.norm_sqr() > 4.0 { return Some(i); } z = z * z + c; }
\*   None
\* from loop state s: the range is exhausted (return None), or the test
\* returns, or the body runs and i moves on.
EscapeStep(s, c, limit) ==
    IF s.done THEN s
    ELSE IF s.i >= limit THEN [s EXCEPT !.ret = None, !.done = TRUE]
    ELSE IF Escaped(s.z) THEN [s EXCEPT !.ret = Some(EscapeCount(s.i)), !.done = TRUE]
    ELSE [s EXCEPT !.z = Iterate(s.z, c), !.i = s.i + 1]

\* n passes of the loop, split in halves (TLC's stack does not hold 255 nested
\* evaluations).
RECURSIVE EscapeRun(_, _, _, _)
EscapeRun(s, c, limit, n) ==
    IF s.done \/ n = 0 THEN s
    ELSE IF n = 1 THEN EscapeStep(s, c, limit)
    ELSE EscapeRun(EscapeRun(s, c, limit, n \div 2), c, limit, n - n \div 2)

\* limit passes run the body at most limit times; one more exhausts the range.
escape_time(c, limit) == EscapeRun(LoopStart, c, limit, limit + 1).ret

\* ----------------------------------------------------- pixel_to_point
\* mutant of pixel_to_point: the imaginary part grows with the row
pixel_to_point_no_flip(bounds, pixel, upper_left, lower_right) ==
    LET width  == FSub(lower_right.re, upper_left.re)
        height == FSub(upper_left.im, lower_right.im)
    IN  Complex(
          FAdd(upper_left.re,
               FDiv(FMul(AsF64(pixel[1]), width), AsF64(bounds[1]))),
          FAdd(upper_left.im,
               FDiv(FMul(AsF64(pixel[2]), height), AsF64(bounds[2]))))

\* bounds and pixel are pairs <<column/width, row/height>> of usize.
pixel_to_point(bounds, pixel, upper_left, lower_right) ==
    LET width  == FSub(lower_right.re, upper_left.re)
        height == FSub(upper_left.im, lower_right.im)
    IN  Complex(
          FAdd(upper_left.re,
               FDiv(FMul(AsF64(pixel[1]), width), AsF64(bounds[1]))),
          FSub(upper_left.im,
               FDiv(FMul(AsF64(pixel[2]), height), AsF64(bounds[2]))))


\* ------------------------------------------------------------- render
\* the limit render passes to escape_time
RenderLimit == 255

\* count as u8
AsU8(count) == count % 256

\* mutant of PixelValue: the count stored without the inversion
PixelValueRaw(ret) == IF ret.some THEN AsU8(ret.count) ELSE 0

\* match escape_time(point, 255) { None => 0, Some(count) => 255 - count as u8 }
PixelValue(ret) == IF ret.some THEN 255 - AsU8(ret.count) ELSE 0

\* assert!(pixels.len() == bounds.0 * bounds.1)
RenderAssert(len, b) == len = b[1] * b[2]

\* The bytes render leaves in a slice of `len` bytes that passed the assert:
\* byte row * bounds.0 + column for every row < bounds.1, column < bounds.0.
render(len, b, ul, lr) ==
    [k \in 1..len |->
        LET column == (k - 1) % b[1]
            row    == (k - 1) \div b[1]
            point  == pixel_to_point(b, <<column, row>>, ul, lr)
        IN  PixelValue(escape_time(point, RenderLimit))]

\* --------------------------------------------------------------- state
VARIABLES
    \* mandelbrot: fn main
    pc,            \* where main is: "partition", "scope", "write", "done", "panicked"
    bounds,        \* <<width, height>>, parsed from args[2]
    threads,       \* let threads
    upper_left,    \* parsed from args[3]
    lower_right,   \* parsed from args[4]
    pixels,        \* the Vec<u8>, row-major
    bands,         \* the chunks of pixels: [start, len], in index order
    task,          \* the band tasks spawned so far, in spawn order
    image,         \* what write_image left at args[1]
    \* mandelbrot: one call of escape_time and the byte render stores for it
    et_c,          \* the argument c
    et_limit,      \* the argument limit
    et_loop,       \* the loop state: z, i, the value returned
    et_pixel,      \* the bytes render stored for the point (none yet: << >>)
    \* mandelbrot: one call of pixel_to_point
    pp_args,       \* [bounds, pixel, upper_left, lower_right]
    pp_point,      \* the point returned (NoPoint: not called yet)
    \* quickreplace: fn main
    qr_pc,         \* "args", "read", "replace", "write", "done", "exit1"
    qr_argv,       \* the command line after the program name
    qr_args,       \* struct Arguments
    qr_input,      \* the content of the INPUT file (NoFile: it cannot be read)
    qr_data,       \* let data
    qr_replace_data, \* let _replace_data
    qr_output      \* the content of the OUTPUT file (NoFile: not written)

mvars == <<pc, bounds, threads, upper_left, lower_right, pixels, bands, task, image>>

evars == <<et_c, et_limit, et_loop, et_pixel>>

pvars == <<pp_args, pp_point>>

qvars == <<qr_pc, qr_argv, qr_args, qr_input, qr_data, qr_replace_data, qr_output>>

vars == <<mvars, evars, pvars, qvars>>

\* ---------------------------------------------------------------- main
\* let threads = 8
Threads == 8

Min(a, b) == IF a < b THEN a ELSE b

CeilDiv(a, b) == (a + b - 1) \div b

\* mutants of rows_per_band: the quotient without the + 1 (at least one row),
\* and the rounded-up quotient
rows_per_band_floor(b, t) == IF b[2] \div t = 0 THEN 1 ELSE b[2] \div t

rows_per_band_ceil(b, t) == IF b[2] = 0 THEN 1 ELSE CeilDiv(b[2], t)

\* let rows_per_band = bounds.1 / threads + 1
rows_per_band(b, t) == b[2] \div t + 1

\* mutant of ChunkSize: the width forgotten
ChunkSizeRows(b, t) == rows_per_band(b, t)

\* the chunk size handed to chunks_mut: rows_per_band * bounds.0
ChunkSize(b, t) == rows_per_band(b, t) * b[1]

\* slice::chunks_mut(size) over a slice of `len` bytes, size > 0: consecutive
\* chunks of `size` bytes, the last one shorter when size does not divide len.
chunks_mut(len, size) ==
    [k \in 1..((len + size - 1) \div size) |->
        [start |-> (k - 1) * size, len |-> Min(size, len - (k - 1) * size)]]

\* let top = rows_per_band * i   (i counts from 0)
BandTop(b, t, i) == rows_per_band(b, t) * i

\* mutant of BandHeight: every band taken to be rows_per_band rows high
BandHeightFull(b, t, band) == rows_per_band(b, t)

\* let height = band.len() / bounds.0
BandHeight(b, t, band) == band.len \div b[1]

\* mutant of BandCorners: the band's corners taken at rows 0 and height
BandCornersLocal(b, top, height) == <<(<<0, 0>>), (<<b[1], height>>)>>

\* the corner pixels handed to pixel_to_point for a band
BandCorners(b, top, height) == <<(<<0, top>>), (<<b[1], top + height>>)>>

\* One iteration of the for loop of the scope: what is moved into the closure.
BandTask(b, t, ul, lr, i, band) ==
    LET top     == BandTop(b, t, i)
        height  == BandHeight(b, t, band)
        corners == BandCorners(b, top, height)
    IN  [ band             |-> band,
          top              |-> top,
          band_bounds      |-> <<b[1], height>>,
          band_upper_left  |-> pixel_to_point(b, corners[1], ul, lr),
          band_lower_right |-> pixel_to_point(b, corners[2], ul, lr),
          status           |-> "running" ]

\* mutant of AllJoined: the threads are not waited for
AllJoinedDetached == TRUE

\* crossbeam::scope returns once every thread spawned in it has finished.
AllJoined == \A k \in 1..Len(task) : task[k].status \in {"done", "panicked"}

\* ... and returns Err when one of them panicked; .unwrap() then panics.
ScopeResult == IF \E k \in 1..Len(task) : task[k].status = "panicked"
               THEN "Err" ELSE "Ok"

NoImage == [written |-> FALSE]

\* The corners the command line gives (UPPERLEFT, LOWERRIGHT).
Viewports ==
    { <<Complex(F64(-2, 0), F64(1, -1)), Complex(F64(7, 0), F64(-1, 0))>> }

MainInit ==
    /\ pc = "partition"
    /\ bounds \in (0..MaxWidth) \X (0..MaxHeight)
    /\ threads = Threads
    /\ \E v \in Viewports : upper_left = v[1] /\ lower_right = v[2]
    /\ pixels = << >>
    /\ bands = << >>
    /\ task = << >>
    /\ image = NoImage

\* let mut pixels = vec![0; bounds.0 * bounds.1]; ... pixels.chunks_mut(..).collect();
\* chunks_mut panics when the chunk size is 0.
Partition ==
    /\ pc = "partition"
    /\ pixels' = [k \in 1..(bounds[1] * bounds[2]) |-> 0]
    /\ IF ChunkSize(bounds, threads) = 0
       THEN pc' = "panicked" /\ bands' = bands
       ELSE /\ pc' = "scope"
            /\ bands' = chunks_mut(bounds[1] * bounds[2], ChunkSize(bounds, threads))
    /\ UNCHANGED <<bounds, threads, upper_left, lower_right, task, image, evars, pvars, qvars>>

\* for (i, band) in bands.into_iter().enumerate() { ...; spawner.spawn(..) }
Spawn ==
    /\ pc = "scope"
    /\ Len(task) < Len(bands)
    /\ task' = Append(task, BandTask(bounds, threads, upper_left, lower_right,
                                     Len(task), bands[Len(task) + 1]))
    /\ UNCHANGED <<pc, bounds, threads, upper_left, lower_right, pixels, bands, image, evars, pvars, qvars>>

\* A spawned thread runs render(band, band_bounds, band_upper_left, band_lower_right).
RenderBand(k) ==
    /\ k \in 1..Len(task)
    /\ task[k].status = "running"
    /\ LET tk == task[k]
       IN  IF RenderAssert(tk.band.len, tk.band_bounds)
           THEN LET out == render(tk.band.len, tk.band_bounds,
                                  tk.band_upper_left, tk.band_lower_right)
                IN  /\ pixels' = [n \in 1..Len(pixels) |->
                                    IF n > tk.band.start /\ n <= tk.band.start + tk.band.len
                                    THEN out[n - tk.band.start] ELSE pixels[n]]
                    /\ task' = [task EXCEPT ![k].status = "done"]
           ELSE /\ task' = [task EXCEPT ![k].status = "panicked"]
                /\ pixels' = pixels
    /\ UNCHANGED <<pc, bounds, threads, upper_left, lower_right, bands, image, evars, pvars, qvars>>

\* The closure has spawned every band; scope(..) joins the threads; .unwrap()
Join ==
    /\ pc = "scope"
    /\ Len(task) = Len(bands)
    /\ AllJoined
    /\ pc' = IF ScopeResult = "Ok" THEN "write" ELSE "panicked"
    /\ UNCHANGED <<bounds, threads, upper_left, lower_right, pixels, bands, task, image, evars, pvars, qvars>>

\* write_image(&args[1], &pixels, bounds).expect(..): the file system may fail.
WriteImage ==
    /\ pc = "write"
    /\ \E ok \in BOOLEAN :
         IF ok
         THEN /\ image' = [written |-> TRUE, bounds |-> bounds, pixels |-> pixels]
              /\ pc' = "done"
         ELSE /\ image' = image
              /\ pc' = "panicked"
    /\ UNCHANGED <<bounds, threads, upper_left, lower_right, pixels, bands, task, evars, pvars, qvars>>

Next ==
    \/ Partition
    \/ Spawn
    \/ \E k \in 1..Threads : RenderBand(k)
    \/ Join
    \/ WriteImage

\* -------------------------------------------- escape_time, step by step
\* The points escape_time is called on: real and imaginary parts.
EscapeParts ==
    { F64(-3, 0), F64(-2, 0), F64(-1, 0), F64(-1, -1), F64(0, 0),
      F64(1, -6), F64(1, -2), F64(1, 0), F64(2, 0), F64(3, 0) }

\* The limits escape_time is called with: small ones, and render's.
Limits == (1..MaxSmallLimit) \cup {RenderLimit}

NoPixel == << >>

EscapeInit ==
    /\ et_c \in { Complex(re, im) : re \in EscapeParts, im \in EscapeParts }
    /\ et_limit \in Limits
    /\ et_loop = LoopStart
    /\ et_pixel = NoPixel

\* One pass of the for loop of escape_time (or its end, returning None).
EscapePass ==
    /\ ~et_loop.done
    /\ et_loop' = EscapeStep(et_loop, et_c, et_limit)
    /\ UNCHANGED <<et_c, et_limit, et_pixel, mvars, pvars, qvars>>

\* render's match on the value escape_time(point, 255) returned.
StorePixel ==
    /\ et_loop.done
    /\ et_limit = RenderLimit
    /\ et_pixel = NoPixel
    /\ et_pixel' = <<PixelValue(et_loop.ret)>>
    /\ UNCHANGED <<et_c, et_limit, et_loop, mvars, pvars, qvars>>

EscapeNext == EscapePass \/ StorePixel

\* ------------------------------------------------ pixel_to_point, called
\* The corners pixel_to_point is called with: upper_left above and to the
\* left of lower_right.
CornerLeft == { F64(-77, -6), F64(-1, 0) }

CornerRight == { F64(1, -2), F64(1, 0) }

CornerTop == { F64(77, -6), F64(1, 0) }

CornerBottom == { F64(-1, -2), F64(-1, 0) }

\* The bounds it is called with: small ones and those of test_pixel_to_point.
PointBounds == ((1..MaxPointBound) \X (1..MaxPointBound)) \cup {<<100, 200>>}

\* The pixels: the first columns and rows, the corner (width, height), and
\* the pixel of test_pixel_to_point.
PointPixels(b) ==
    ((0..Min(b[1], MaxPointBound)) \X (0..Min(b[2], MaxPointBound)))
        \cup {b} \cup (IF b = <<100, 200>> THEN {<<25, 175>>} ELSE {})

NoPoint == [called |-> FALSE]

PointInit ==
    /\ \E b \in PointBounds : \E px \in PointPixels(b) :
       \E l \in CornerLeft : \E r \in CornerRight :
       \E t \in CornerTop : \E bt \in CornerBottom :
          pp_args = [bounds |-> b, pixel |-> px,
                     upper_left |-> Complex(l, t), lower_right |-> Complex(r, bt)]
    /\ pp_point = NoPoint

CallPixelToPoint ==
    /\ pp_point = NoPoint
    /\ pp_point' = [called |-> TRUE,
                    point  |-> pixel_to_point(pp_args.bounds, pp_args.pixel,
                                              pp_args.upper_left, pp_args.lower_right)]
    /\ UNCHANGED <<pp_args, mvars, evars, qvars>>

PointNext == CallPixelToPoint

\* ------------------------------------------------- quickreplace: replace
\* Text is a sequence of characters; a pattern is a sequence of regex atoms: a
\* literal character, "." (any character) or "(" (an unclosed group).
Chars == {"a", "b"}

\* Regex::new(target): the pattern does not parse when a group is not closed.
RegexNew(target) ==
    IF \E j \in 1..Len(target) : target[j] = "("
    THEN [ok |-> FALSE] ELSE [ok |-> TRUE, regex |-> target]

\* the regex matches text at position p
MatchesAt(regex, text, p) ==
    /\ p + Len(regex) - 1 <= Len(text)
    /\ \A j \in 1..Len(regex) : regex[j] = "." \/ regex[j] = text[p + j - 1]

\* Regex::replace_all from position p: every leftmost non-overlapping match
\* of a non-empty regex is replaced.
RECURSIVE ReplaceAllFrom(_, _, _, _)
ReplaceAllFrom(regex, text, replacement, p) ==
    IF p > Len(text) THEN << >>
    ELSE IF MatchesAt(regex, text, p)
         THEN replacement \o ReplaceAllFrom(regex, text, replacement, p + Len(regex))
         ELSE <<text[p]>> \o ReplaceAllFrom(regex, text, replacement, p + 1)

\* fn replace(target, replacement, text) -> Result<String, regex::Error>
replace(target, replacement, text) ==
    LET compiled == RegexNew(target)
    IN  IF compiled.ok
        THEN [ok |-> TRUE, v |-> ReplaceAllFrom(compiled.regex, text, replacement, 1)]
        ELSE [ok |-> FALSE]

\* ---------------------------------------------------- quickreplace: main
RECURSIVE SeqsUpTo(_, _)
SeqsUpTo(S, n) ==
    IF n = 0 THEN {<< >>}
    ELSE LET shorter == SeqsUpTo(S, n - 1)
         IN  shorter \cup { Append(q, x) : q \in shorter, x \in S }

Texts == SeqsUpTo(Chars, MaxTextLen)

Targets == (SeqsUpTo(Chars \cup {"."}, MaxTargetLen) \ {<< >>}) \cup {<<"(">>, <<"a", "(">>}

Replacements == {<< >>, <<"a">>, <<"b", "b">>}

NoFile == [exists |-> FALSE]

File(content) == [exists |-> TRUE, content |-> content]

NoArguments == [target |-> << >>, replacement |-> << >>, filename |-> "", output |-> ""]

ReplaceInit ==
    /\ qr_pc = "args"
    /\ qr_argv \in { <<t, r, "INPUT", "OUTPUT">> : t \in Targets, r \in Replacements }
                     \cup { <<t, <<"a">>, "INPUT">> : t \in Targets }
    /\ qr_input \in { File(text) : text \in Texts } \cup {NoFile}
    /\ qr_args = NoArguments
    /\ qr_data = << >>
    /\ qr_replace_data = << >>
    /\ qr_output = NoFile

\* fn parse_args: exit(1) unless there are 4 arguments
ParseArgs ==
    /\ qr_pc = "args"
    /\ IF Len(qr_argv) # 4
       THEN qr_pc' = "exit1" /\ qr_args' = qr_args
       ELSE /\ qr_args' = [target |-> qr_argv[1], replacement |-> qr_argv[2],
                           filename |-> qr_argv[3], output |-> qr_argv[4]]
            /\ qr_pc' = "read"
    /\ UNCHANGED <<qr_argv, qr_input, qr_data, qr_replace_data, qr_output,
                   mvars, evars, pvars>>

\* let data = match fs::read_to_string(&args.filename) { Ok(v) => v, Err => exit(1) }
ReadFile ==
    /\ qr_pc = "read"
    /\ IF qr_input.exists
       THEN qr_data' = qr_input.content /\ qr_pc' = "replace"
       ELSE qr_data' = qr_data /\ qr_pc' = "exit1"
    /\ UNCHANGED <<qr_argv, qr_args, qr_input, qr_replace_data, qr_output,
                   mvars, evars, pvars>>

\* let _replace_data = match replace(&args.target, &args.replacement, &data) {..}
Replace ==
    /\ qr_pc = "replace"
    /\ LET r == replace(qr_args.target, qr_args.replacement, qr_data)
       IN  IF r.ok
           THEN qr_replace_data' = r.v /\ qr_pc' = "write"
           ELSE qr_replace_data' = qr_replace_data /\ qr_pc' = "exit1"
    /\ UNCHANGED <<qr_argv, qr_args, qr_input, qr_data, qr_output,
                   mvars, evars, pvars>>

\* match fs::write(&args.output, &data) { Ok(_) => {}, Err => exit(1) }
WriteFile ==
    /\ qr_pc = "write"
    /\ \E ok \in BOOLEAN :
          IF ok
          THEN qr_output' = File(qr_data) /\ qr_pc' = "done"
          ELSE qr_output' = qr_output /\ qr_pc' = "exit1"
    /\ UNCHANGED <<qr_argv, qr_args, qr_input, qr_data, qr_replace_data,
                   mvars, evars, pvars>>

ReplaceNext == ParseArgs \/ ReadFile \/ Replace \/ WriteFile

\* ------------------------------------------------------- specifications
\* A program that is not the one running keeps its variables at rest.
MainIdle ==
    /\ pc = "idle" /\ bounds = <<0, 0>> /\ threads = 0
    /\ upper_left = Complex(F64(0, 0), F64(0, 0))
    /\ lower_right = Complex(F64(0, 0), F64(0, 0))
    /\ pixels = << >> /\ bands = << >> /\ task = << >> /\ image = NoImage

EscapeIdle ==
    /\ et_c = Complex(F64(0, 0), F64(0, 0)) /\ et_limit = 0
    /\ et_loop = [LoopStart EXCEPT !.done = TRUE] /\ et_pixel = NoPixel

PointIdle ==
    /\ pp_args = [bounds |-> <<1, 1>>, pixel |-> <<0, 0>>,
                  upper_left |-> Complex(F64(0, 0), F64(0, 0)),
                  lower_right |-> Complex(F64(0, 0), F64(0, 0))]
    /\ pp_point = [called |-> TRUE, point |-> Complex(F64(0, 0), F64(0, 0))]

ReplaceIdle ==
    /\ qr_pc = "idle" /\ qr_argv = << >> /\ qr_args = NoArguments
    /\ qr_input = NoFile /\ qr_data = << >> /\ qr_replace_data = << >>
    /\ qr_output = NoFile

Init == MainInit /\ EscapeIdle /\ PointIdle /\ ReplaceIdle

\* mandelbrot's main
Spec == Init /\ [][Next]_vars

\* escape_time on drawn arguments
InitEscape == EscapeInit /\ MainIdle /\ PointIdle /\ ReplaceIdle

SpecEscape == InitEscape /\ [][EscapeNext]_vars

\* pixel_to_point on drawn arguments
InitPoint == PointInit /\ MainIdle /\ EscapeIdle /\ ReplaceIdle

SpecPoint == InitPoint /\ [][PointNext]_vars

\* quickreplace's main
InitReplace == ReplaceInit /\ MainIdle /\ EscapeIdle /\ PointIdle

SpecReplace == InitReplace /\ [][ReplaceNext]_vars


\* ------------------------------------------------------------ properties
Positive == bounds[1] > 0 /\ bounds[2] > 0

Partitioned == pc # "partition"

AllSpawned == Partitioned /\ Len(task) = Len(bands)

\* the rows [top, top + bandHeight) of spawned band k
RowsOf(k) == task[k].top .. (task[k].top + task[k].band_bounds[2] - 1)

\* the bands main would build for bounds b with t threads, and their row ranges
Bands(b, t) == chunks_mut(b[1] * b[2], ChunkSize(b, t))

BandRows(b, t, i) ==
    LET top == BandTop(b, t, i - 1)
    IN  top .. (top + BandHeight(b, t, Bands(b, t)[i]) - 1)

\* every row of the image is in exactly one band, and no band leaves the image
TilesRows(b, t) ==
    /\ \A i \in 1..Len(Bands(b, t)) : BandRows(b, t, i) \subseteq 0..(b[2] - 1)
    /\ \A row \in 0..(b[2] - 1) :
          Cardinality({i \in 1..Len(Bands(b, t)) : row \in BandRows(b, t, i)}) = 1

\* C1: for height, width > 0 the row ranges [top, top+bandHeight) of the bands
\* main spawns lie inside [0, height), no row is in two of them, and once
\* every band is built every row of the image is in exactly one; the same
\* holds of the bands computed for every concurrency > 0.
C1_BandsTileRows ==
    Positive =>
      /\ \A k \in 1..Len(task) : RowsOf(k) \subseteq 0..(bounds[2] - 1)
      /\ \A row \in 0..(bounds[2] - 1) :
            Cardinality({k \in 1..Len(task) : row \in RowsOf(k)}) <= 1
      /\ AllSpawned =>
            \A row \in 0..(bounds[2] - 1) :
               Cardinality({k \in 1..Len(task) : row \in RowsOf(k)}) = 1
      /\ \A t \in 1..MaxThreads : TilesRows(bounds, t)

\* C1's case: several bands, all built, the last one shorter than the first.
C1_Witness ==
    /\ Positive /\ AllSpawned /\ Len(task) >= 3
    /\ task[Len(task)].band_bounds[2] < task[1].band_bounds[2]

\* The byte a run with t threads leaves at index n of the buffer when the bands
\* are rendered one after the other, in index order.
SequentialPixel(b, t, ul, lr, n) ==
    LET size == ChunkSize(b, t)
        i    == (n - 1) \div size
        band == chunks_mut(b[1] * b[2], size)[i + 1]
        tk   == BandTask(b, t, ul, lr, i, band)
    IN  render(band.len, tk.band_bounds, tk.band_upper_left,
               tk.band_lower_right)[n - band.start]

SequentialRender(b, t, ul, lr) ==
    [n \in 1..(b[1] * b[2]) |-> SequentialPixel(b, t, ul, lr, n)]

\* the row of the image at which the chunk of spawned band k starts
FirstRow(k) == task[k].band.start \div bounds[1]

\* pixel (column, row) of spawned band k, mapped with the band's own bounds
\* and corners, as render does
BandPoint(k, column, row) ==
    pixel_to_point(task[k].band_bounds, <<column, row>>,
                   task[k].band_upper_left, task[k].band_lower_right)

\* the same pixel mapped directly against the full image
DirectPoint(k, column, row) ==
    pixel_to_point(bounds, <<column, FirstRow(k) + row>>, upper_left, lower_right)

\* C2 as claimed: the buffer of a run with 8 threads is byte for byte the
\* buffer of a run with 1 thread on the same bounds and viewport.
C2_ByteIdentical ==
    (Positive /\ pc = "write" /\ threads = 8) =>
        pixels = SequentialRender(bounds, 1, upper_left, lower_right)

\* C2 amended: the finished buffer does not depend on the order the band
\* workers ran in (it is the buffer of rendering the bands one after the
\* other), and the band mapping agrees exactly with the direct mapping where
\* no rounding separates them: the imaginary part on every band's first row
\* and the real part in column 0. Elsewhere the two agree only up to
\* floating-point rounding.
C2_OrderIndependentAndCornerExact ==
    /\ (Positive /\ pc = "write") =>
          pixels = SequentialRender(bounds, threads, upper_left, lower_right)
    /\ \A k \in 1..Len(task) :
          /\ \A column \in 0..(bounds[1] - 1) :
                BandPoint(k, column, 0).im = DirectPoint(k, column, 0).im
          /\ \A row \in 0..(task[k].band_bounds[2] - 1) :
                BandPoint(k, 0, row).re = DirectPoint(k, 0, row).re

\* C2's case: a run with 8 threads whose bands have several rows is finished,
\* and some pixel of a band maps to another point than it does directly.
C2_Witness ==
    /\ pc = "write" /\ threads = 8 /\ Len(task) >= 2
    /\ \E k \in 1..Len(task) :
          \E row \in 0..(task[k].band_bounds[2] - 1) :
             BandPoint(k, 0, row) # DirectPoint(k, 0, row)

\* C3: write_image is called (and the file written) only when every band has
\* been spawned and every band task has finished without panicking.
C3_WriteOnlyAfterJoin ==
    (pc \in {"write", "done"} \/ image.written) =>
        /\ Len(task) = Len(bands)
        /\ \A k \in 1..Len(task) : task[k].status = "done"

\* C3's case: an image of several bands has been written.
C3_Witness == pc = "done" /\ image.written /\ Len(task) >= 2

\* C6: for height, width, threads > 0 at most `threads` bands are built and
\* at most `threads` tasks spawned.
C6_AtMostThreadsBands ==
    Positive =>
      /\ Partitioned => Len(bands) <= threads /\ Len(task) <= threads
      /\ \A t \in 1..MaxThreads : Len(Bands(bounds, t)) <= t

\* C6's case: exactly `threads` tasks are spawned.
C6_Witness == Positive /\ threads >= 2 /\ Len(task) = threads

\* C7 as claimed: the number of bands is concurrency or one fewer.
C7_OneBandFewerAtMost ==
    (Positive /\ Partitioned) => Len(bands) \in {threads, threads - 1}

\* C7 amended: the number of bands is ceil(height / rowsPerBand); it never
\* exceeds what rowsPerBand = ceil(height / concurrency) would give, equals it
\* when concurrency does not divide height, and when it does is concurrency
\* less floor(concurrency / (height / concurrency + 1)) bands.
C7_BandCount ==
    Positive =>
      /\ Partitioned => Len(bands) = Len(Bands(bounds, threads))
      /\ \A t \in 1..MaxThreads :
            LET n         == Len(Bands(bounds, t))
                ceilBands == CeilDiv(bounds[2], CeilDiv(bounds[2], t))
            IN  /\ n = CeilDiv(bounds[2], rows_per_band(bounds, t))
                /\ 1 <= n /\ n <= ceilBands
                /\ bounds[2] % t # 0 => n = ceilBands
                /\ bounds[2] % t = 0 => n = t - t \div (bounds[2] \div t + 1)

\* C7's case: more than one band fewer than the threads asked for.
C7_Witness == Positive /\ Partitioned /\ 1 < Len(bands) /\ Len(bands) < threads - 1

\* C10: every chunk handed to render is a whole number of rows that starts at
\* row `top`, its length is band_bounds.0 * band_bounds.1, and no band task
\* panics on render's assertion.
C10_AssertNeverFails ==
    \A k \in 1..Len(task) :
        /\ RenderAssert(task[k].band.len, task[k].band_bounds)
        /\ task[k].band.len % bounds[1] = 0
        /\ task[k].band.start = task[k].top * bounds[1]
        /\ task[k].status # "panicked"

\* C10's case: a shorter final chunk of a wider image has been rendered.
C10_Witness ==
    /\ bounds[1] >= 2 /\ Len(task) >= 2 /\ Len(task) = Len(bands)
    /\ task[Len(task)].band.len < task[1].band.len
    /\ task[Len(task)].status = "done"


\* |c| > 2 in exact arithmetic: re^2 + im^2 > 4
ExactNormSqrGt4(c) ==
    LET e == Min(Min(c.re.e, c.im.e), 0)
        a == c.re.m * Pow2(c.re.e - e)
        b == c.im.m * Pow2(c.im.e - e)
    IN  a * a + b * b > 4 * Pow2(-2 * e)

\* C4 as claimed: for every c with |c| > 2 and every positive limit,
\* escape_time(c, limit) returns Some(0).
C4_DivergesAtZero ==
    (et_loop.done /\ et_limit >= 1 /\ ExactNormSqrGt4(et_c)) => et_loop.ret = Some(0)

\* C4 amended: escape_time never returns Some(0) (the test at i = 0 sees
\* z = 0); for every c whose squared norm as computed exceeds 4.0, c = 3+0i
\* included, it returns Some(1) when limit >= 2 and None when limit = 1.
C4_DivergesAfterOnePass ==
    et_loop.done =>
        /\ et_loop.ret # Some(0)
        /\ Escaped(et_c) =>
              et_loop.ret = (IF et_limit >= 2 THEN Some(1) ELSE None)

\* C4's case: escape_time(3+0i, 255) has returned.
C4_Witness ==
    /\ et_loop.done /\ et_limit = RenderLimit
    /\ et_c = Complex(F64(3, 0), F64(0, 0))
    /\ et_loop.ret = Some(1)

\* C5: an escape count returned under limit is below limit, so under render's
\* limit of 255 it is below 255; the byte render stores is 0 for None and
\* 255 - count for Some(count), the conversion `count as u8` keeping the count
\* and the result lying in 1..255; it is the byte of escape_time(point, 255).
C5_PixelByte ==
    /\ (et_loop.done /\ et_loop.ret.some) => et_loop.ret.count < et_limit
    /\ (et_pixel # NoPixel /\ et_limit = RenderLimit) =>
          /\ et_pixel = <<PixelValue(escape_time(et_c, RenderLimit))>>
          /\ IF et_loop.ret.some
             THEN /\ et_loop.ret.count < 255
                  /\ AsU8(et_loop.ret.count) = et_loop.ret.count
                  /\ et_pixel[1] = 255 - et_loop.ret.count
                  /\ et_pixel[1] \in 1..255
             ELSE et_pixel[1] = 0

\* C5's case: a byte has been stored for a point that escaped after some passes.
C5_Witness ==
    /\ et_pixel # NoPixel /\ et_limit = RenderLimit
    /\ et_loop.ret.some /\ et_loop.ret.count >= 3

\* m * 2^e is a value of the floating-point format: rounding leaves it alone
IsExact(m, e) == BitLen(Abs(Strip(m, e).m)) <= MantissaBits

\* x - y, and x * y, are computed without rounding
ExactSub(x, y) ==
    LET e == Min(x.e, y.e)
    IN  IsExact(x.m * Pow2(x.e - e) - y.m * Pow2(y.e - e), e)

ExactMul(x, y) == IsExact(x.m * y.m, x.e + y.e)

\* the arguments of the call in test_pixel_to_point
TestCase ==
    [bounds |-> <<100, 200>>, pixel |-> <<25, 175>>,
     upper_left |-> Complex(F64(-1, 0), F64(1, 0)),
     lower_right |-> Complex(F64(1, 0), F64(-1, 0))]

\* the value test_pixel_to_point's assert_eq! expects: (-0.5, 0.75)
TestExpected == Complex(F64(-1, -1), F64(3, -2))

\* the imaginary part one row further down is not above this row's
RowsDescend(a, p) ==
    FCmp(pixel_to_point(a.bounds, <<a.pixel[1], a.pixel[2] + 1>>,
                        a.upper_left, a.lower_right).im, p.im) <= 0

C9_OutputIsReplacedText ==
    qr_pc = "done" =>
        qr_output = File(replace(qr_args.target, qr_args.replacement,
                                 qr_input.content).v)

=============================================================================
